---- MODULE Spec2Model ----
(***************************************************************************)
(* Model of the wwt-aligner agent's "go" command:                           *)
(*   backend/wwt_aligner/agent_cli.py  entrypoint, go_impl                 *)
(*   backend/wwt_aligner/driver.py     go, image_size_to_anet_preset       *)
(* One run of the command is one behaviour.  Every call into an external   *)
(* collaborator (source extraction, subprocesses, file I/O, image I/O,     *)
(* tiling) is a step whose outcome (normal return, a raised Exception, a   *)
(* KeyboardInterrupt) is chosen nondeterministically.                      *)
(***************************************************************************)
EXTENDS Integers, Sequences, FiniteSets, TLC

\* Longest list of reference images handed to go().
MaxRefs == 2
\* largest large-scale estimate tried, in units of 1/UnitsPerDeg degree
MaxSize == 100

\* driver.py: DEFAULT_SOLVE_TIME_LIMIT
DEFAULT_SOLVE_TIME_LIMIT == 30

\* Python's None and a present value: an optional is a sequence of length 0 or 1
None == <<>>
Some(x) == <<x>>

(***************************************************************************)
(* Paths are sequences of one-character strings, so that os.path.basename, *)
(* os.path.splitext and str.lower are computed, not assumed.               *)
(***************************************************************************)
Sep == "/"
Dot == "."

RECURSIVE RFind(_, _, _)
\* str.rfind restricted to p[1..n]: the last position of c, 0 when absent
RFind(p, c, n) ==
    IF n = 0 THEN 0
    ELSE IF p[n] = c THEN n
    ELSE RFind(p, c, n - 1)

\* os.path.basename: what follows the last separator
basename(p) == SubSeq(p, RFind(p, Sep, Len(p)) + 1, Len(p))

\* genericpath._splitext: the extension starts at the last dot that follows
\* the last separator, leading dots of the file name not counting
splitext(p) ==
    LET sepIndex == RFind(p, Sep, Len(p))
        dotIndex == RFind(p, Dot, Len(p))
        nondot   == {k \in (sepIndex + 1)..(dotIndex - 1) : p[k] # Dot}
    IN  IF dotIndex > sepIndex /\ nondot # {}
        THEN <<SubSeq(p, 1, dotIndex - 1), SubSeq(p, dotIndex, Len(p))>>
        ELSE <<p, <<>> >>

\* str.lower on one character of the alphabet used here
LowerChar(c) ==
    CASE c = "A" -> "a"
      [] c = "P" -> "p"
      [] c = "Q" -> "q"
      [] OTHER -> c

\* str.lower
lower(s) == [k \in 1..Len(s) |-> LowerChar(s[k])]

TaggedSuffix == <<"_", "t", "a", "g", "g", "e", "d">>

\* driver.py 347-350: the output path go() uses
EffectiveOutput(rgb, requested) ==
    IF requested = None
    THEN LET in_name_pieces == splitext(basename(rgb))
         IN  in_name_pieces[1] \o TaggedSuffix \o in_name_pieces[2]
    ELSE requested[1]

\* variant: the extensions compared as written, without .lower()
NeedsConversionCaseSensitive(rgb, out) ==
    splitext(basename(rgb))[2] # splitext(out)[2]

\* driver.py 352-355: must the image be re-encoded before tagging?
NeedsConversion(rgb, out) ==
    LET input_ext  == lower(splitext(basename(rgb))[2])
        output_ext == lower(splitext(out)[2])
    IN  input_ext # output_ext

(***************************************************************************)
(* Angles are integer multiples of 1/UnitsPerDeg degree.                   *)
(***************************************************************************)
UnitsPerDeg == 2 ^ 6

RECURSIVE FloorLog2(_, _)
\* floor(log2(a / b)) for integers a, b > 0
FloorLog2(a, b) ==
    IF a < b THEN FloorLog2(2 * a, b) - 1
    ELSE IF a >= 2 * b THEN FloorLog2(a, 2 * b) + 1
    ELSE 0

Max(a, b) == IF a >= b THEN a ELSE b
Min(a, b) == IF a <= b THEN a ELSE b

\* math.log2 raises ValueError ("math domain error") for size_deg <= 0
PresetRaises(size) == size <= 0

\* variant: the preset without the floor of -5
image_size_to_anet_preset_unclamped(size) ==
    5 + FloorLog2(size * size, UnitsPerDeg * UnitsPerDeg)

\* driver.py image_size_to_anet_preset, size in units of 1/UnitsPerDeg deg:
\* floor(5 + 2*log2(s)) = 5 + floor(log2(s^2))
image_size_to_anet_preset(size) ==
    Max(-5, 5 + FloorLog2(size * size, UnitsPerDeg * UnitsPerDeg))

(***************************************************************************)
(* Inputs of one run.                                                      *)
(***************************************************************************)
\* Reference FITS files on disk and what source_extract_fits measures in
\* them when it succeeds: large_scale_deg and width_deg (driver.py 109-111).
\* "z.fits" has a degenerate WCS: its corners project to the same sky point.
FitsOnDisk ==
    [x \in {"a.fits", "b.fits", "z.fits"} |->
        CASE x = "a.fits" -> [large_scale_deg |-> 92, width_deg |-> 64]
          [] x = "b.fits" -> [large_scale_deg |-> 24, width_deg |-> 16]
          [] x = "z.fits" -> [large_scale_deg |-> 0,  width_deg |-> 0]]

RefFiles == DOMAIN FitsOnDisk

RECURSIVE SeqsUpTo(_, _)
SeqsUpTo(S, n) ==
    IF n = 0 THEN {<<>>}
    ELSE LET shorter == SeqsUpTo(S, n - 1)
         IN  shorter \cup {Append(q, x) : q \in {r \in shorter : Len(r) = n - 1}, x \in S}

\* target images: "a.p", "a.P", "d/a.p"
RgbPaths == {<<"a", ".", "p">>, <<"a", ".", "P">>, <<"d", "/", "a", ".", "p">>}

\* --output: absent, "a.p", "a.q", "d/a.p"
OutputPaths ==
    {None, Some(<<"a", ".", "p">>), Some(<<"a", ".", "q">>),
     Some(<<"d", "/", "a", ".", "p">>)}

TilePaths == {None, Some("tiles")}
WorkPaths == {None, Some("wd")}

\* image height in pixels of each target image (toasty Image.height)
ImgHeight(rgb) == IF Len(rgb) = 3 THEN 4 ELSE 6

\* the solutions solve-field may write: the reference pixel and the PC
\* matrix that WCS(header).to_header() gives for solved.fits
Solutions ==
    {[CRPIX1 |-> 2, CRPIX2 |-> 1, PC1_1 |-> 1, PC1_2 |-> 0, PC2_1 |-> 0, PC2_2 |-> 1],
     [CRPIX1 |-> 5, CRPIX2 |-> 9, PC1_1 |-> -1, PC1_2 |-> 2, PC2_1 |-> 3, PC2_2 |-> -3]}

NoExc == [type |-> "none", what |-> "none"]
Exc(what) == [type |-> "Exception", what |-> what]
Interrupt == [type |-> "KeyboardInterrupt", what |-> "SIGINT"]

\* os.path.join(work_dir, name); a name is the sequence of its pieces,
\* f'objects{fits_num}.fits' being <<"objects">> \o str(fits_num) \o <<".fits">>
join(dir, name) == [dir |-> dir, name |-> name]

RECURSIVE str(_)
\* str(n) of an int n >= 0: its decimal digits
str(n) ==
    LET digit(d) == <<"0", "1", "2", "3", "4", "5", "6", "7", "8", "9">>[d + 1]
    IN  IF n < 10 THEN <<digit(n)>> ELSE Append(str(n \div 10), digit(n % 10))

\* one step of go() on reference image number num (or the solver run, with
\* num the number of images): the work files it opens for writing and the
\* index identifier it hands over, if any
Event(op, num, files, id) == [op |-> op, num |-> num, files |-> files, id |-> id]

VARIABLES
    \* settings (agent_cli.py go_getparser)
    fits_paths, rgb_path, output_path, tile_path, work_path,
    \* go_impl / entrypoint
    pc, work_dir, rv, escaped, exit_status, stderr,
    \* file system
    wd_exists, wd_files, cfg_file, solved_fits, image_writes,
    \* locals of go()
    fits_num, info, argv, index_fits_list, scale_low, scale_high, exc,
    out_path, wcs,
    \* what the collaborators did (history)
    extract_ok, index_ok, solver_calls, solver_exit, tile_calls, sigint, log,
    events,
    \* image_size_to_anet_preset on its own: arguments and what each call gave
    size_deg, presets

settings == <<fits_paths, rgb_path, output_path, tile_path, work_path>>
implvars == <<work_dir, rv, escaped, exit_status, stderr>>
fsvars   == <<wd_exists, wd_files, cfg_file, solved_fits, image_writes>>
loopvars == <<fits_num, info, argv, index_fits_list, scale_low, scale_high>>
tailvars == <<out_path, wcs>>
histvars == <<extract_ok, index_ok, solver_calls, solver_exit, tile_calls, sigint,
              events>>
probe    == <<size_deg, presets>>
vars == <<settings, pc, implvars, fsvars, loopvars, exc, tailvars, histvars, log,
          probe>>

\* the state of go_impl and go() before anything ran
Fresh ==
    /\ work_dir = None
    /\ rv = None
    /\ escaped = NoExc
    /\ exit_status = None
    /\ stderr = <<>>
    /\ wd_files = {}
    /\ cfg_file = None
    /\ solved_fits = None
    /\ image_writes = <<>>
    /\ fits_num = 0
    /\ info = None
    /\ argv = None
    /\ index_fits_list = <<>>
    /\ scale_low = None
    /\ scale_high = None
    /\ exc = NoExc
    /\ out_path = None
    /\ wcs = None
    /\ extract_ok = {}
    /\ index_ok = {}
    /\ solver_calls = <<>>
    /\ solver_exit = None
    /\ tile_calls = <<>>
    /\ sigint = FALSE
    /\ log = <<>>
    /\ events = <<>>

Init ==
    /\ fits_paths \in SeqsUpTo(RefFiles, MaxRefs)
    /\ rgb_path \in RgbPaths
    /\ output_path \in OutputPaths
    /\ tile_path \in TilePaths
    /\ work_path \in WorkPaths
    /\ pc = "start"
    \* a caller-supplied work directory may already exist
    /\ wd_exists \in (IF work_path = None THEN {FALSE} ELSE BOOLEAN)
    /\ Fresh
    /\ size_deg = <<>>
    /\ presets = <<>>

(***************************************************************************)
(* go_impl: work directory (agent_cli.py 222-226).  Both calls sit before  *)
(* the try block, so what they raise leaves go_impl.                       *)
(***************************************************************************)
Setup ==
    /\ pc = "start"
    /\ IF work_path # None
       THEN \* os.mkdir(work_dir): FileExistsError when it exists already
            \E ok \in (IF wd_exists THEN {FALSE} ELSE BOOLEAN) :
                /\ work_dir' = work_path
                /\ wd_exists' = (wd_exists \/ ok)
                /\ escaped' = IF ok THEN NoExc ELSE Exc("mkdir")
                /\ pc' = IF ok THEN "go" ELSE "returned"
       ELSE \* tempfile.mkdtemp()
            \E ok \in BOOLEAN :
                /\ work_dir' = IF ok THEN Some("tmp") ELSE None
                /\ wd_exists' = ok
                /\ escaped' = IF ok THEN NoExc ELSE Exc("mkdtemp")
                /\ pc' = IF ok THEN "go" ELSE "returned"
    /\ UNCHANGED <<probe, settings, rv, exit_status, stderr, wd_files, cfg_file,
                   solved_fits, image_writes, loopvars, exc, tailvars,
                   histvars, log>>

(***************************************************************************)
(* go(): the loop over the reference images (driver.py 198-258)            *)
(***************************************************************************)
\* variant: a loop that stops one image short of the end of the list
LoopPcSkipLast(n) == IF n + 1 < Len(fits_paths) THEN "extract" ELSE "check"

\* where the for statement goes with fits_num = n
LoopPc(n) == IF n < Len(fits_paths) THEN "extract" ELSE "check"

\* variant: a bare `except:` clause, which takes every BaseException
CaughtByBareExcept(e) == TRUE

\* `except Exception` catches Exception and its subclasses; KeyboardInterrupt
\* derives from BaseException and is not one of them
CaughtByExceptException(e) == e.type = "Exception"

objects_fits == join(work_dir[1], <<"objects">> \o str(fits_num) \o <<".fits">>)

\* variant: one index file name for every reference image
index_fits_unnumbered == join(work_dir[1], <<"index", ".fits">>)

index_fits == join(work_dir[1], <<"index">> \o str(fits_num) \o <<".fits">>)
index_log == join(work_dir[1], <<"build-index-">> \o str(fits_num) \o <<".log">>)

\* driver.py 198-201
GoBegin ==
    /\ pc = "go"
    /\ index_fits_list' = <<>>
    /\ scale_low' = None
    /\ scale_high' = None
    /\ fits_num' = 0
    /\ pc' = LoopPc(0)
    /\ UNCHANGED <<probe, settings, implvars, fsvars, info, argv, exc, tailvars,
                   histvars, log>>

\* driver.py 204-209: source_extract_fits inside try / except Exception
Extract ==
    /\ pc = "extract"
    /\ events' = Append(events, Event("extract", fits_num, {}, None))
    /\ \E raised \in {NoExc, Exc("extract"), Interrupt} :
        /\ sigint' = (sigint \/ raised = Interrupt)
        /\ IF raised = NoExc
           THEN /\ info' = Some(FitsOnDisk[fits_paths[fits_num + 1]])
                /\ extract_ok' = extract_ok \cup {fits_num}
                /\ pc' = "catalog"
                /\ UNCHANGED <<fits_num, exc, log>>
           ELSE IF CaughtByExceptException(raised)
           THEN \* logger.warning twice, then continue
                /\ log' = Append(log, <<"warning", "extract", fits_num>>)
                /\ fits_num' = fits_num + 1
                /\ pc' = LoopPc(fits_num + 1)
                /\ UNCHANGED <<info, extract_ok, exc>>
           ELSE /\ exc' = raised
                /\ pc' = "go_done"
                /\ UNCHANGED <<info, extract_ok, fits_num, log>>
    /\ UNCHANGED <<probe, settings, implvars, fsvars, argv, index_fits_list,
                   scale_low, scale_high, tailvars, index_ok, solver_calls,
                   solver_exit, tile_calls>>

\* driver.py 211-212: info.wcs_objects.write(...), not inside any try
WriteCatalog ==
    /\ pc = "catalog"
    /\ \E raised \in {NoExc, Exc("catalog")} :
        IF raised = NoExc
        THEN /\ wd_files' = wd_files \cup {objects_fits}
             /\ pc' = "argv"
             /\ UNCHANGED exc
        ELSE /\ exc' = raised
             /\ pc' = "go_done"
             /\ UNCHANGED wd_files
    /\ events' = Append(events, Event("catalog", fits_num, {objects_fits}, None))
    /\ UNCHANGED <<probe, settings, implvars, wd_exists, cfg_file, solved_fits,
                   image_writes, loopvars, tailvars, extract_ok, index_ok,
                   solver_calls, solver_exit, tile_calls, sigint, log>>

\* driver.py 216-230: the index command line; image_size_to_anet_preset is
\* called here, outside any try
BuildIndexArgv ==
    /\ pc = "argv"
    /\ IF PresetRaises(info[1].large_scale_deg)
       THEN /\ exc' = Exc("preset")
            /\ pc' = "go_done"
            /\ UNCHANGED argv
       ELSE /\ argv' = Some([i |-> objects_fits, o |-> index_fits, I |-> str(fits_num),
                             P |-> image_size_to_anet_preset(info[1].large_scale_deg)])
            /\ pc' = "index"
            /\ UNCHANGED exc
    /\ UNCHANGED <<probe, settings, implvars, fsvars, fits_num, info, index_fits_list,
                   scale_low, scale_high, tailvars, histvars, log>>

\* variant: the bound of the image indexed last replaces the running minimum
NewScaleLowLatest(low, width_deg) == Some(width_deg * 30)

\* driver.py 250-258
NewScaleLow(low, width_deg) ==
    IF low = None THEN Some(width_deg * 30) ELSE Some(Min(low[1], width_deg * 30))

NewScaleHigh(high, width_deg) ==
    IF high = None THEN Some(width_deg * 120) ELSE Some(Max(high[1], width_deg * 120))

\* driver.py 233-258: open the log, run build-astrometry-index, both inside
\* try / except Exception; on success the index joins index_fits_list
RunIndexer ==
    /\ pc = "index"
    /\ \E raised \in {NoExc, Exc("index_exit"), Exc("index_oserror"), Interrupt} :
        /\ sigint' = (sigint \/ raised = Interrupt)
        \* open(index_log, 'wb') comes first; when it fails the tool is not run
        /\ events' = Append(events,
                IF raised = Exc("index_oserror")
                THEN Event("open_log", fits_num, {index_log}, None)
                ELSE Event("index", fits_num, {index_log, argv[1].o}, Some(argv[1].I)))
        /\ wd_files' = wd_files
                \cup (IF raised = Exc("index_oserror") THEN {} ELSE {index_log})
                \cup (IF raised = NoExc THEN {argv[1].o} ELSE {})
        /\ IF raised = NoExc
           THEN /\ index_ok' = index_ok \cup {fits_num}
                /\ index_fits_list' = Append(index_fits_list, index_fits)
                /\ scale_low' = NewScaleLow(scale_low, info[1].width_deg)
                /\ scale_high' = NewScaleHigh(scale_high, info[1].width_deg)
                /\ fits_num' = fits_num + 1
                /\ pc' = LoopPc(fits_num + 1)
                /\ UNCHANGED <<exc, log>>
           ELSE IF CaughtByExceptException(raised)
           THEN /\ log' = Append(log, <<"warning", "index", fits_num>>)
                /\ fits_num' = fits_num + 1
                /\ pc' = LoopPc(fits_num + 1)
                /\ UNCHANGED <<index_ok, index_fits_list, scale_low, scale_high, exc>>
           ELSE /\ exc' = raised
                /\ pc' = "go_done"
                /\ UNCHANGED <<index_ok, index_fits_list, scale_low, scale_high,
                               fits_num, log>>
    /\ UNCHANGED <<probe, settings, implvars, wd_exists, cfg_file, solved_fits,
                   image_writes, info, argv, tailvars, extract_ok, solver_calls,
                   solver_exit, tile_calls>>

(***************************************************************************)
(* go(): configuration file and solver (driver.py 260-321)                 *)
(***************************************************************************)
\* driver.py 260-261
EmptyCheck ==
    /\ pc = "check"
    /\ IF index_fits_list = <<>>
       THEN /\ exc' = Exc("empty_index")
            /\ pc' = "go_done"
       ELSE /\ pc' = "cfg_open"
            /\ UNCHANGED exc
    /\ UNCHANGED <<probe, settings, implvars, fsvars, loopvars, tailvars, histvars, log>>

cfg_path  == join(work_dir[1], <<"aligner.cfg">>)
wcs_file  == join(work_dir[1], <<"solved.fits">>)
solve_log == join(work_dir[1], <<"solve-field.log">>)

\* variant: an index line for every reference image, indexed or not
CfgLinesEveryImage(dir, indices) ==
    <<[kw |-> "add_path", arg |-> join(dir, <<>>)],
      [kw |-> "inparallel", arg |-> join("", <<>>)]>>
    \o [k \in 1..Len(fits_paths) |->
          [kw |-> "index", arg |-> join(dir, <<"index">> \o str(k - 1) \o <<".fits">>)]]

\* driver.py 268-272: the lines printed into the configuration file
\* (every line carries a path record; "inparallel" takes no argument and
\* carries the empty one)
CfgLines(dir, indices) ==
    <<[kw |-> "add_path", arg |-> join(dir, <<>>)],
      [kw |-> "inparallel", arg |-> join("", <<>>)]>>
    \o [k \in 1..Len(indices) |-> [kw |-> "index", arg |-> indices[k]]]

\* driver.py 265-267: open(cfg_path, 'wt') creates or truncates the file
CfgOpen ==
    /\ pc = "cfg_open"
    /\ \E raised \in {NoExc, Exc("cfg_open")} :
        IF raised = NoExc
        THEN /\ cfg_file' = Some(<<>>)
             /\ wd_files' = wd_files \cup {cfg_path}
             /\ pc' = "cfg_print"
             /\ UNCHANGED exc
        ELSE /\ exc' = raised
             /\ pc' = "go_done"
             /\ UNCHANGED <<cfg_file, wd_files>>
    /\ UNCHANGED <<probe, settings, implvars, wd_exists, solved_fits, image_writes,
                   loopvars, tailvars, histvars, log>>

\* driver.py 268-272: one print per step; leaving the with block after the
\* last one closes the file.  A write error or an interrupt leaves the with
\* block too, and the file keeps the lines printed so far.
CfgPrint ==
    /\ pc = "cfg_print"
    /\ LET lines   == CfgLines(work_dir[1], index_fits_list)
           written == Len(cfg_file[1])
       IN  \E raised \in {NoExc, Exc("cfg_write"), Interrupt} :
            /\ sigint' = (sigint \/ raised = Interrupt)
            /\ IF raised = NoExc
               THEN /\ cfg_file' = Some(Append(cfg_file[1], lines[written + 1]))
                    /\ pc' = IF written + 1 = Len(lines) THEN "solve" ELSE "cfg_print"
                    /\ UNCHANGED exc
               ELSE /\ exc' = raised
                    /\ pc' = "go_done"
                    /\ UNCHANGED cfg_file
    /\ UNCHANGED <<probe, settings, implvars, wd_exists, wd_files, solved_fits,
                   image_writes, loopvars, tailvars, extract_ok, index_ok,
                   solver_calls, solver_exit, tile_calls, events, log>>

\* variant: the exit status alone, without the check for solved.fits
SolveSucceededExitOnly(exit, exists) == exit = 0

\* driver.py 301-308: check_call returned (exit status 0) and the solution
\* file exists
SolveSucceeded(exit, exists) == exit = 0 /\ exists

\* driver.py 279-293
SolveArgv ==
    [config |-> cfg_path, scale_low |-> scale_low, scale_high |-> scale_high,
     cpulimit |-> DEFAULT_SOLVE_TIME_LIMIT, dir |-> work_dir[1], N |-> wcs_file,
     image |-> rgb_path]

\* driver.py 299-309: open the log and run solve-field, then assert that
\* solved.fits exists; `except Exception as e` takes what is raised
Solve ==
    /\ pc = "solve"
    /\ \E outcome \in {"oserror", "ran", "interrupt"}, exit \in {0, 1},
          emitted \in {None} \cup {Some(x) : x \in Solutions} :
        \* only a solver that ran has an exit status and may write a solution
        /\ outcome # "ran" => (exit = 1 /\ emitted = None)
        /\ solved_fits' = emitted
        /\ wd_files' = wd_files
                \cup (IF outcome = "oserror" THEN {} ELSE {solve_log})
                \cup (IF emitted = None THEN {} ELSE {wcs_file})
        /\ solver_calls' = IF outcome = "oserror" THEN solver_calls
                           ELSE Append(solver_calls, SolveArgv)
        /\ events' = IF outcome = "oserror" THEN events
                     ELSE Append(events, Event("solve", fits_num, {solve_log, wcs_file}, None))
        /\ solver_exit' = IF outcome = "ran" THEN Some(exit) ELSE None
        /\ sigint' = (sigint \/ outcome = "interrupt")
        /\ LET raised ==
                 CASE outcome = "oserror" -> Exc("solve_oserror")
                   [] outcome = "interrupt" -> Interrupt
                   [] OTHER ->
                        IF SolveSucceeded(exit, emitted # None) THEN NoExc
                        ELSE IF exit # 0 THEN Exc("CalledProcessError")
                        ELSE Exc("AssertionError")
           IN  /\ exc' = raised
               /\ pc' = IF raised = NoExc THEN "load"
                        ELSE IF CaughtByExceptException(raised) THEN "solve_failed"
                        ELSE "go_done"
    /\ UNCHANGED <<probe, settings, implvars, wd_exists, cfg_file, image_writes,
                   loopvars, tailvars, extract_ok, index_ok, tile_calls, log>>

\* variant: `raise sub_e`, the error of the log read
ReraisedInner(e, sub_e) == sub_e

\* driver.py 321: a bare raise re-raises the exception the handler holds,
\* not the one the inner handler dealt with
Reraised(e, sub_e) == e

\* driver.py 310-321: report, echo solve-field.log, re-raise
SolveFailed ==
    /\ pc = "solve_failed"
    /\ \E readable \in BOOLEAN :
        LET sub_e == Exc("log_read")
        IN  /\ log' = log \o << <<"error", "failed_to_solve", exc.what>>,
                                IF readable /\ solve_log \in wd_files
                                THEN <<"error", "solve_log_lines", "echo">>
                                ELSE <<"error", "failed_to_read_log", sub_e.what>> >>
            /\ exc' = Reraised(exc, sub_e)
    /\ pc' = "go_done"
    /\ UNCHANGED <<probe, settings, implvars, fsvars, loopvars, tailvars, histvars>>

(***************************************************************************)
(* go(): WCS normalisation, AVM embedding, tiling (driver.py 327-387)      *)
(***************************************************************************)
\* driver.py 327: ImageLoader().load_path(rgb_path)
LoadImage ==
    /\ pc = "load"
    /\ \E raised \in {NoExc, Exc("load")} :
        /\ exc' = raised
        /\ pc' = IF raised = NoExc THEN "normalize" ELSE "go_done"
    /\ UNCHANGED <<probe, settings, implvars, fsvars, loopvars, tailvars, histvars, log>>

\* variant: the flip of a zero-based pixel axis
NormalizeWcsZeroBased(hd, height) ==
    [hd EXCEPT !.CRPIX2 = height - hd.CRPIX2,
               !.PC1_2 = -1 * hd.PC1_2,
               !.PC2_2 = -1 * hd.PC2_2]

\* driver.py 333-336: three keywords of the header are reassigned
NormalizeWcs(hd, height) ==
    [hd EXCEPT !.CRPIX2 = height + 1 - hd.CRPIX2,
               !.PC1_2 = -1 * hd.PC1_2,
               !.PC2_2 = -1 * hd.PC2_2]

\* driver.py 329-353: read solved.fits, normalise, build the AVM, settle the
\* output path and compare the extensions
Normalize ==
    /\ pc = "normalize"
    /\ \E raised \in {NoExc, Exc("wcs")} :
        IF raised = NoExc
        THEN /\ wcs' = Some(NormalizeWcs(solved_fits[1], ImgHeight(rgb_path)))
             /\ out_path' = Some(EffectiveOutput(rgb_path, output_path))
             /\ pc' = IF NeedsConversion(rgb_path, EffectiveOutput(rgb_path, output_path))
                      THEN "convert" ELSE "embed"
             /\ UNCHANGED exc
        ELSE /\ exc' = raised
             /\ pc' = "go_done"
             /\ UNCHANGED <<wcs, out_path>>
    /\ UNCHANGED <<probe, settings, implvars, fsvars, loopvars, histvars, log>>

\* variant: tiling without the test for a destination
TileRequestedAlways(tp) == TRUE

\* driver.py 367
TileRequested(tp) == tp # None

\* driver.py 356-357: img.save(output_path, format=...)
Convert ==
    /\ pc = "convert"
    /\ \E raised \in {NoExc, Exc("save")}, wrote \in BOOLEAN :
        \* a save that returns has written; one that fails may have
        /\ raised = NoExc => wrote
        /\ image_writes' = IF wrote
                           THEN Append(image_writes, [op |-> "save", path |-> out_path[1]])
                           ELSE image_writes
        /\ exc' = raised
        /\ pc' = IF raised = NoExc THEN "embed_converted" ELSE "go_done"
    /\ UNCHANGED <<probe, settings, implvars, wd_exists, wd_files, cfg_file, solved_fits,
                   loopvars, tailvars, histvars, log>>

\* driver.py 360 / 363: the file avm.embed reads
EmbedSource(converted, rgb, out) == IF converted THEN out ELSE rgb

\* avm.embed(src, dst): reads src, writes dst
EmbedStep(converted) ==
    \E raised \in {NoExc, Exc("embed")} :
        /\ image_writes' =
              IF raised = NoExc
              THEN Append(image_writes,
                          [op |-> "embed", path |-> out_path[1],
                           src |-> EmbedSource(converted, rgb_path, out_path[1])])
              ELSE image_writes
        /\ exc' = raised
        /\ pc' = IF raised # NoExc THEN "go_done"
                 ELSE IF TileRequested(tile_path) THEN "tile_base"
                 ELSE "go_done"

\* driver.py 359-360
EmbedConverted ==
    /\ pc = "embed_converted"
    /\ EmbedStep(TRUE)
    /\ UNCHANGED <<probe, settings, implvars, wd_exists, wd_files, cfg_file, solved_fits,
                   loopvars, tailvars, histvars, log>>

\* driver.py 362-363
EmbedDirect ==
    /\ pc = "embed"
    /\ EmbedStep(FALSE)
    /\ UNCHANGED <<probe, settings, implvars, wd_exists, wd_files, cfg_file, solved_fits,
                   loopvars, tailvars, histvars, log>>

\* driver.py 368-379: PyramidIO, Builder, thumbnail, base tiles, WTML
TileBase ==
    /\ pc = "tile_base"
    /\ \E raised \in {NoExc, Exc("tile"), Interrupt} :
        /\ tile_calls' = Append(tile_calls, [call |-> "tile_base_as_study", path |-> tile_path])
        /\ sigint' = (sigint \/ raised = Interrupt)
        /\ exc' = raised
        /\ pc' = IF raised = NoExc THEN "cascade" ELSE "go_done"
    /\ UNCHANGED <<probe, settings, implvars, fsvars, loopvars, tailvars, extract_ok,
                   index_ok, solver_calls, solver_exit, events, log>>

\* driver.py 381-387: cascade_images; go() returns after it
Cascade ==
    /\ pc = "cascade"
    /\ \E raised \in {NoExc, Exc("cascade"), Interrupt} :
        /\ tile_calls' = Append(tile_calls, [call |-> "cascade_images", path |-> tile_path])
        /\ sigint' = (sigint \/ raised = Interrupt)
        /\ exc' = raised
        /\ pc' = "go_done"
    /\ UNCHANGED <<probe, settings, implvars, fsvars, loopvars, tailvars, extract_ok,
                   index_ok, solver_calls, solver_exit, events, log>>

(***************************************************************************)
(* go_impl after go() (agent_cli.py 237-250) and entrypoint (383-384)      *)
(***************************************************************************)
\* variant: the except clauses print and fall through to `return 0`
ReturnValueZero(e) == 0

\* agent_cli.py 237-244, 250: what go_impl is about to return
ReturnValue(e) == IF e = NoExc THEN 0 ELSE 1

\* agent_cli.py 237-244: the message go_impl prints for what go() raised
FatalMessage(e) ==
    IF e.type = "KeyboardInterrupt"
    THEN "fatal error: the alignment process was interrupted"
    ELSE "fatal error: the alignment process failed"

\* agent_cli.py 228-244, 250: the except clauses, or the fall through to
\* `return 0`; the finally clause runs before the function is left
GoDone ==
    /\ pc = "go_done"
    /\ stderr' = IF exc = NoExc THEN stderr ELSE Append(stderr, FatalMessage(exc))
    /\ rv' = Some(ReturnValue(exc))
    /\ pc' = "finally"
    /\ UNCHANGED <<probe, settings, work_dir, escaped, exit_status, fsvars, loopvars,
                   exc, tailvars, histvars, log>>

\* variant: the work directory removed whoever made it
RemovesWorkDirAlways(wp) == TRUE

\* agent_cli.py 247
RemovesWorkDir(wp) == wp = None

\* agent_cli.py 245-248: an exception raised by rmtree replaces the pending
\* return
Finally ==
    /\ pc = "finally"
    /\ IF RemovesWorkDir(work_path)
       THEN \E raised \in {NoExc, Exc("rmtree")} :
                /\ escaped' = raised
                /\ rv' = IF raised = NoExc THEN rv ELSE None
                /\ wd_exists' = (raised # NoExc)
                /\ wd_files' = IF raised = NoExc THEN {} ELSE wd_files
                /\ cfg_file' = IF raised = NoExc THEN None ELSE cfg_file
                /\ solved_fits' = IF raised = NoExc THEN None ELSE solved_fits
       ELSE UNCHANGED <<escaped, rv, wd_exists, wd_files, cfg_file, solved_fits>>
    /\ pc' = "returned"
    /\ UNCHANGED <<probe, settings, work_dir, exit_status, stderr, image_writes,
                   loopvars, exc, tailvars, histvars, log>>

\* agent_cli.py 383-384: sys.exit(impl(settings) or 0); an exception that
\* leaves entrypoint ends the interpreter with status 1
ExitStatus(esc, ret) == IF esc # NoExc THEN 1 ELSE ret[1]

Exit ==
    /\ pc = "returned"
    /\ exit_status' = Some(ExitStatus(escaped, rv))
    /\ pc' = "exited"
    /\ UNCHANGED <<probe, settings, work_dir, rv, escaped, stderr, fsvars, loopvars,
                   exc, tailvars, histvars, log>>

Next ==
    \/ Setup \/ GoBegin
    \/ Extract \/ WriteCatalog \/ BuildIndexArgv \/ RunIndexer
    \/ EmptyCheck \/ CfgOpen \/ CfgPrint \/ Solve \/ SolveFailed
    \/ LoadImage \/ Normalize \/ Convert \/ EmbedConverted \/ EmbedDirect
    \/ TileBase \/ Cascade
    \/ GoDone \/ Finally \/ Exit

Spec == Init /\ [][Next]_vars

(***************************************************************************)
(* The same program with the target image, --output and --tile settled:    *)
(* the runs in which only the reference images and the work directory      *)
(* vary.  The loop over the reference images and the solver call read      *)
(* neither output_path nor tile_path.                                      *)
(***************************************************************************)
InitLoop ==
    /\ Init
    /\ rgb_path = <<"a", ".", "p">>
    /\ output_path \in {None, Some(<<"a", ".", "q">>)}
    /\ tile_path = Some("tiles")

SpecLoop == InitLoop /\ [][Next]_vars

(***************************************************************************)
(* image_size_to_anet_preset applied to pairs of large-scale estimates     *)
(* (driver.py 32-44), 0 included: math.log2 raises ValueError there.       *)
(***************************************************************************)
\* what one call gives: the preset, or None when it raises
PresetResult(size) ==
    IF PresetRaises(size) THEN None ELSE Some(image_size_to_anet_preset(size))

InitPreset ==
    /\ size_deg \in (0..MaxSize) \X (0..MaxSize)
    /\ presets = <<>>
    /\ pc = "preset"
    /\ fits_paths = <<>>
    /\ rgb_path = <<"a", ".", "p">>
    /\ output_path = None
    /\ tile_path = None
    /\ work_path = None
    /\ wd_exists = FALSE
    /\ Fresh

PresetCall ==
    /\ pc = "preset"
    /\ presets' = <<PresetResult(size_deg[1]), PresetResult(size_deg[2])>>
    /\ pc' = "preset_done"
    /\ UNCHANGED <<size_deg, settings, implvars, fsvars, loopvars, exc, tailvars,
                   histvars, log>>

NextPreset == PresetCall

SpecPreset == InitPreset /\ [][NextPreset]_vars

(***************************************************************************)
(* Properties                                                              *)
(***************************************************************************)
\* go() is over: it returned or what it raised has reached go_impl
GoEnded == pc \in {"go_done", "finally"}

\* K: the reference images whose extraction returned and whose
\* build-astrometry-index run exited 0
K == Cardinality(extract_ok \cap index_ok)

SolverInvoked == solver_calls # <<>>

\* C1: of N reference images, K succeed at extraction and index generation;
\* go() invokes the solver if and only if K >= 1, index_fits_list then has
\* exactly K entries, and with K = 0 go() aborts with the empty-index error
\* and never invokes the solver.  Stated of every run that no interrupt ended
\* and in which writing the configuration file and launching the solver did
\* not fail.
C1_SolverIffSurvivor ==
    (/\ GoEnded
     /\ exc.type # "KeyboardInterrupt"
     /\ exc.what \notin {"cfg_open", "cfg_write", "solve_oserror"})
    => /\ SolverInvoked <=> K >= 1
       /\ SolverInvoked => Len(index_fits_list) = K
       /\ K = 0 => exc = Exc("empty_index")

\* the errors confined to one reference image: extraction, catalog file,
\* density preset, index generation
PerImageErrors == {"extract", "catalog", "preset", "index_exit", "index_oserror"}

\* C2: an error raised while extracting one reference image's sources,
\* writing its catalog, deriving its density preset or running the index
\* tool never terminates go().
C2_PerImageFailureNeverFatal ==
    GoEnded => exc.what \notin PerImageErrors

PostSolvePcs ==
    {"load", "normalize", "convert", "embed", "embed_converted", "tile_base", "cascade"}

Embedded == \E k \in 1..Len(image_writes) : image_writes[k].op = "embed"

\* C3: the stages after the solver (image load, WCS normalisation, conversion,
\* embedding, tiling) are reached, and an output image is written, only when
\* solve-field exited 0 and solved.fits exists; exit 0 without solved.fits ends
\* go() with the assertion's error after the solve-failure report, and the
\* command does not exit 0.
C3_SolveNeedsExitZeroAndFile ==
    /\ pc \in PostSolvePcs => solver_exit = Some(0) /\ wcs_file \in wd_files
    /\ (wcs # None \/ image_writes # <<>> \/ tile_calls # <<>>)
          => /\ solver_exit = Some(0)
             /\ pc \notin {"returned", "exited"} => wcs_file \in wd_files
    /\ (GoEnded /\ solver_exit = Some(0) /\ wcs_file \notin wd_files)
          => /\ exc = Exc("AssertionError")
             /\ \E k \in 1..Len(log) : log[k] = <<"error", "failed_to_solve", "AssertionError">>
             /\ wcs = None /\ image_writes = <<>> /\ tile_calls = <<>>
    /\ exit_status = Some(0) => wcs # None

\* a run whose solver exited 0 without writing solved.fits
C3_Witness ==
    pc = "go_done" /\ solver_exit = Some(0) /\ wcs_file \notin wd_files
    /\ exc = Exc("AssertionError")

\* the error the failed solve raised, read off what the solver did
OriginalSolveError ==
    IF solver_exit = Some(1) THEN "CalledProcessError"
    ELSE IF solver_exit = Some(0) THEN "AssertionError"
    ELSE "solve_oserror"

SolveFailure ==
    /\ GoEnded
    /\ exc.type = "Exception"
    /\ exc.what \in {"CalledProcessError", "AssertionError", "solve_oserror", "log_read"}

\* C4: after a solve failure (non-zero exit, raised error, missing solution)
\* go() has reported the failure, echoed solve-field.log (or reported that it
\* could not be read), and raises the original error, also when the log could
\* not be read; no later stage has run.
C4_SolveFailurePropagatesOriginal ==
    SolveFailure
    => /\ exc = Exc(OriginalSolveError)
       /\ Len(log) >= 2
       /\ log[Len(log) - 1] = <<"error", "failed_to_solve", OriginalSolveError>>
       /\ log[Len(log)][2] \in {"solve_log_lines", "failed_to_read_log"}
       /\ wcs = None /\ image_writes = <<>> /\ tile_calls = <<>>

\* a non-zero solver exit whose log could then not be read
C4_Witness ==
    /\ pc = "go_done"
    /\ solver_exit = Some(1)
    /\ exc = Exc("CalledProcessError")
    /\ Len(log) >= 1
    /\ log[Len(log)][2] = "failed_to_read_log"

\* C5: once a KeyboardInterrupt has arrived during extraction, an indexing
\* subprocess, the solver subprocess (or the writing of the configuration
\* file, or tiling), no handler of go() absorbs
\* it: go() is over with the interrupt as what it raised, the loop does not go
\* on to the next image, go_impl prints the 'interrupted' message and not the
\* 'failed' one, and the exit status is not 0.
C5_InterruptReachesGoImpl ==
    sigint
    => /\ pc \in {"go_done", "finally", "returned", "exited"}
       /\ exc = Interrupt
       /\ pc # "go_done" => stderr = <<"fatal error: the alignment process was interrupted">>
       /\ pc = "finally" => rv = Some(1)
       /\ pc = "exited" => exit_status = Some(1)

\* an interrupt during the indexing of the first of two reference images
C5_Witness ==
    /\ pc = "exited"
    /\ sigint
    /\ Len(fits_paths) = 2
    /\ fits_num = 0
    /\ 0 \in extract_ok
    /\ exit_status = Some(1)

\* C6: when go_impl has returned (success, pipeline failure or interruption)
\* the work directory exists if and only if the caller supplied --workdir; a
\* work directory the caller supplied exists from its creation on.
C6_WorkDirKeptIffSupplied ==
    /\ (pc \in {"returned", "exited"} /\ rv # None) => (wd_exists <=> work_path # None)
    /\ (work_path # None /\ pc \notin {"start"} /\ escaped # Exc("mkdir")) => wd_exists

\* a temporary directory removed after an interrupted run
C6_Witness ==
    /\ pc = "exited"
    /\ work_path = None
    /\ exc = Interrupt
    /\ rv = Some(1)
    /\ ~wd_exists

\* C7: the exit status is 0 exactly when nothing was raised, by go() or by the
\* work directory's setup and cleanup, and then every stage ran (solver exit 0,
\* output embedded, tiles made when requested); it is 1 otherwise.
C7_ExitStatus ==
    pc = "exited"
    => /\ exit_status \in {Some(0), Some(1)}
       /\ exit_status = Some(0) <=> (exc = NoExc /\ escaped = NoExc)
       /\ exit_status = Some(0)
            => /\ solver_exit = Some(0)
               /\ Embedded
               /\ tile_path # None => Len(tile_calls) = 2

\* a run that succeeded and then failed to remove its temporary directory
C7_Witness ==
    /\ pc = "exited"
    /\ exc = NoExc
    /\ Embedded
    /\ escaped = Exc("rmtree")
    /\ exit_status = Some(1)

\* the configuration file has been written and closed, and still exists
CfgWritten ==
    \/ pc \in {"solve", "solve_failed"} \cup PostSolvePcs
    \/ GoEnded /\ SolverInvoked

IndexLines == {k \in 1..Len(cfg_file[1]) : cfg_file[1][k].kw = "index"}

IndexOf(n) == join(work_dir[1], <<"index">> \o str(n) \o <<".fits">>)

\* C8: the written configuration file starts with the work directory as
\* search path and the parallel-loading directive, followed by index lines
\* only: exactly one for each image whose index generation succeeded in this
\* run; and at no moment does the file name the index of another image.
C8_ConfigListsSurvivingIndices ==
    /\ CfgWritten
        => /\ Len(cfg_file[1]) = 2 + Cardinality(index_ok)
           /\ cfg_file[1][1].kw = "add_path"
           /\ cfg_file[1][1].arg.dir = work_dir[1]
           /\ cfg_file[1][2].kw = "inparallel"
           /\ IndexLines = 3..Len(cfg_file[1])
           /\ \A n \in index_ok :
                Cardinality({k \in IndexLines : cfg_file[1][k].arg = IndexOf(n)}) = 1
    /\ cfg_file # None
        => \A k \in IndexLines :
             \E n \in index_ok : cfg_file[1][k].arg = IndexOf(n)

\* two reference images, the first failed, the second indexed: three lines
C8_Witness ==
    /\ pc = "solve"
    /\ Len(fits_paths) = 2
    /\ index_ok = {1}
    /\ Len(cfg_file[1]) = 3
    /\ cfg_file[1][3].arg = IndexOf(1)

\* the file name's extension, lower-cased: from the last dot on (every path
\* of RgbPaths and OutputPaths has a dot inside its last component)
ClaimedExt(p) ==
    LET d == CHOOSE k \in 1..Len(p) : p[k] = Dot /\ \A j \in (k + 1)..Len(p) : p[j] # Dot
    IN  [k \in 1..(Len(p) - d + 1) |-> LowerChar(p[d + k - 1])]

\* the output path the claim names
ClaimedOutput ==
    IF output_path # None THEN output_path[1]
    ELSE CASE rgb_path = <<"a", ".", "p">> -> <<"a", "_", "t", "a", "g", "g", "e", "d", ".", "p">>
           [] rgb_path = <<"a", ".", "P">> -> <<"a", "_", "t", "a", "g", "g", "e", "d", ".", "P">>
           [] rgb_path = <<"d", "/", "a", ".", "p">> -> <<"a", "_", "t", "a", "g", "g", "e", "d", ".", "p">>

Saves == {k \in 1..Len(image_writes) : image_writes[k].op = "save"}
Embeds == {k \in 1..Len(image_writes) : image_writes[k].op = "embed"}

\* C9: the embedding stage writes no file but the output path (the requested
\* one, else <input base name>_tagged<input extension>), so the input image is
\* written only when the output path equals it; once it has embedded, that
\* one file is written, and the image was re-encoded first if and only if the
\* lower-cased extensions of input and output differ.
C9_EmbedWritesOnlyOutput ==
    /\ \A k \in 1..Len(image_writes) :
         /\ image_writes[k].path = ClaimedOutput
         /\ image_writes[k].path = rgb_path => output_path = Some(rgb_path)
    /\ Saves # {} => ClaimedExt(rgb_path) # ClaimedExt(ClaimedOutput)
    /\ Embedded
        => /\ Cardinality(Embeds) = 1
           /\ Saves # {} <=> ClaimedExt(rgb_path) # ClaimedExt(ClaimedOutput)
           /\ Saves # {} => image_writes = << [op |-> "save", path |-> ClaimedOutput],
                                              [op |-> "embed", path |-> ClaimedOutput,
                                               src |-> ClaimedOutput] >>
           /\ Saves = {} => image_writes = << [op |-> "embed", path |-> ClaimedOutput,
                                               src |-> rgb_path] >>

\* "a.P" tagged into "a.p": no re-encoding, and the input is left alone
C9_Witness ==
    /\ Embedded
    /\ rgb_path = <<"a", ".", "P">>
    /\ output_path = Some(<<"a", ".", "p">>)
    /\ Saves = {}

\* C10: tiling calls are made only when a tile destination was given, and only
\* after the solver succeeded and the tagged output was written.
C10_TilingOnlyOnRequestAfterEmbed ==
    tile_calls # <<>>
    => /\ tile_path # None
       /\ solver_exit = Some(0)
       /\ Embedded
       /\ \A k \in 1..Len(tile_calls) : tile_calls[k].path = tile_path

\* a run that tiled and cascaded after embedding
C10_Witness ==
    /\ pc = "exited"
    /\ Len(tile_calls) = 2
    /\ tile_calls[2].call = "cascade_images"
    /\ Embedded
    /\ exit_status = Some(0)

(***************************************************************************)
(* C11: scale bounds handed to solve-field                                 *)
(***************************************************************************)
\* widths, in arc-minutes (times UnitsPerDeg), of the reference images whose
\* extraction and indexing both succeeded
SurvivorWidthsArcmin ==
    {FitsOnDisk[fits_paths[n + 1]].width_deg * 60 : n \in extract_ok \cap index_ok}

SetMin(S) == CHOOSE x \in S : \A y \in S : x <= y
SetMax(S) == CHOOSE x \in S : \A y \in S : x >= y

\* C11: every solve-field invocation carries --scale-low = the minimum over
\* the surviving reference images of width_arcmin / 2 and --scale-high = the
\* maximum over them of width_arcmin * 2; failed images contribute nothing,
\* and a single survivor gives exactly its own (width / 2, width * 2).
C11_ScaleBoundsAreMinMaxOverSurvivors ==
    \A k \in 1..Len(solver_calls) :
        LET c == solver_calls[k]
        IN  /\ SurvivorWidthsArcmin # {}
            /\ c.scale_low # None
            /\ c.scale_high # None
            /\ 2 * c.scale_low[1] = SetMin(SurvivorWidthsArcmin)
            /\ c.scale_high[1] = 2 * SetMax(SurvivorWidthsArcmin)

\* the solver was invoked after a narrower image and then a wider one were
\* both indexed
C11_Witness ==
    /\ solver_calls # <<>>
    /\ fits_paths = <<"b.fits", "a.fits">>
    /\ index_ok = {0, 1}
    /\ solver_calls[1].scale_low # solver_calls[1].scale_high

(***************************************************************************)
(* C12: the density preset                                                 *)
(***************************************************************************)
\* p = floor(5 + 2*log2(size / UnitsPerDeg)), stated without logarithms:
\* 2^(p-5) <= (size / UnitsPerDeg)^2 < 2^(p-4), both sides times 2^10
IsFloorOfFormula(p, size) ==
    /\ (2 ^ (p + 5)) * UnitsPerDeg * UnitsPerDeg <= size * size * (2 ^ 10)
    /\ size * size * (2 ^ 10) < (2 ^ (p + 6)) * UnitsPerDeg * UnitsPerDeg

\* floor(5 + 2*log2(size / UnitsPerDeg)) <= -5
FormulaAtMostMinus5(size) ==
    size * size * (2 ^ 10) < 2 * UnitsPerDeg * UnitsPerDeg

\* C12: for every large-scale estimate for which a preset is computed, the
\* preset is max(-5, floor(5 + 2*log2(large_scale_deg))): never below -5,
\* and not smaller for a larger estimate.
C12_PresetIsClampedFloorAndMonotone ==
    presets # <<>> =>
        /\ \A i \in 1..2 :
              size_deg[i] > 0 =>
                /\ presets[i] # None
                /\ presets[i][1] >= -5
                /\ IF FormulaAtMostMinus5(size_deg[i])
                   THEN presets[i][1] = -5
                   ELSE IsFloorOfFormula(presets[i][1], size_deg[i])
        /\ \A i, j \in 1..2 :
              (0 < size_deg[i] /\ size_deg[i] <= size_deg[j]) =>
                (presets[i] # None /\ presets[j] # None
                 /\ presets[i][1] <= presets[j][1])

\* one estimate small enough for the floor of -5, one above a degree
C12_Witness ==
    /\ pc = "preset_done"
    /\ size_deg = <<2, MaxSize>>
    /\ presets = <<Some(-5), Some(6)>>

(***************************************************************************)
(* C13: WCS normalisation                                                  *)
(***************************************************************************)
\* C13: the normalised WCS has CRPIX2 = height + 1 - old, PC1_2 and PC2_2
\* negated and every other field as solve-field wrote it; normalising it
\* again with the same height gives the solution back.
C13_NormalizeFlipsVerticalAxis ==
    (wcs # None /\ solved_fits # None) =>
        LET old    == solved_fits[1]
            new    == wcs[1]
            height == ImgHeight(rgb_path)
        IN  /\ DOMAIN new = DOMAIN old
            /\ new.CRPIX2 = height + 1 - old.CRPIX2
            /\ new.PC1_2 + old.PC1_2 = 0
            /\ new.PC2_2 + old.PC2_2 = 0
            /\ \A f \in DOMAIN old \ {"CRPIX2", "PC1_2", "PC2_2"} : new[f] = old[f]
            /\ NormalizeWcs(new, height) = old

\* a normalised solution whose cross term is not zero and whose reference
\* pixel moved
C13_Witness ==
    /\ wcs # None
    /\ solved_fits # None
    /\ solved_fits[1].PC1_2 # 0
    /\ wcs[1].CRPIX2 # solved_fits[1].CRPIX2

(***************************************************************************)
(* C14: the configuration file                                             *)
(***************************************************************************)
\* C14: at every point of a run aligner.cfg either does not exist or holds
\* the complete manifest: the search path, the parallel directive and one
\* index line per surviving index.
C14_ConfigNeverPartial ==
    cfg_file # None => cfg_file[1] = CfgLines(work_dir[1], index_fits_list)

(***************************************************************************)
(* C15: identifiers and work files of distinct reference images            *)
(***************************************************************************)
\* C15: steps taken for reference images at distinct positions of the input
\* list open disjoint sets of work files (catalog, index, log) and hand
\* distinct index identifiers to build-astrometry-index, also when a path is
\* listed twice or an earlier image failed (nor does the solver run open a
\* file of theirs); no two entries of the index list, nor two index lines of
\* the configuration file, are the same.
C15_DistinctIdsAndPaths ==
    /\ \A i \in 1..Len(events) : \A j \in (i + 1)..Len(events) :
          events[i].num # events[j].num =>
            /\ events[i].files \cap events[j].files = {}
            /\ (events[i].id # None /\ events[j].id # None)
                  => events[i].id # events[j].id
    /\ \A i \in 1..Len(index_fits_list) : \A j \in (i + 1)..Len(index_fits_list) :
          index_fits_list[i] # index_fits_list[j]
    /\ cfg_file # None =>
          \A i \in 1..Len(cfg_file[1]) : \A j \in (i + 1)..Len(cfg_file[1]) :
            (cfg_file[1][i].kw = "index" /\ cfg_file[1][j].kw = "index")
              => cfg_file[1][i].arg # cfg_file[1][j].arg

\* the same path listed twice: the first copy failed in the indexer, the
\* second was indexed
C15_Witness ==
    /\ fits_paths = <<"a.fits", "a.fits">>
    /\ index_ok = {1}
    /\ \E i, j \in DOMAIN events :
          /\ events[i].op = "index" /\ events[i].num = 0
          /\ events[j].op = "index" /\ events[j].num = 1

(***************************************************************************)
(* C16: nothing is retried, nothing overlaps                               *)
(***************************************************************************)
\* the order of the steps taken for one reference image; the solver run
\* comes after them all
StepRank(op) ==
    CASE op = "extract" -> 1
      [] op = "catalog" -> 2
      [] op \in {"open_log", "index"} -> 3
      [] op = "solve" -> 4

\* C16: of two consecutive steps the later one is for a later reference
\* image, or for the same image and further down the loop body: so each step
\* (extraction, catalog write, indexer run) is taken at most once per image,
\* in input-list order, and none is taken for an image once the next one
\* has begun.  An image whose extraction failed gets no further step.  The
\* solver is invoked at most once, as the last step, after every reference
\* image has been gone through; after a failed solve no later stage runs.
C16_NoRetryNoOverlap ==
    /\ \A i \in 1..(Len(events) - 1) :
          \/ events[i].num < events[i + 1].num
          \/ /\ events[i].num = events[i + 1].num
             /\ StepRank(events[i].op) < StepRank(events[i + 1].op)
    /\ \A k \in 1..Len(events) :
          IF events[k].op = "solve"
          THEN /\ k = Len(events)
               /\ solver_calls # <<>>
               /\ events[k].num = Len(fits_paths)
               /\ \A n \in 0..(Len(fits_paths) - 1) :
                     \E i \in 1..(k - 1) : events[i].op = "extract" /\ events[i].num = n
          ELSE /\ events[k].num < Len(fits_paths)
               /\ events[k].op # "extract" => events[k].num \in extract_ok
    /\ Len(solver_calls) <= 1
    /\ solver_calls # <<>> => (events # <<>> /\ events[Len(events)].op = "solve")
    /\ (solver_calls # <<>> /\ solver_exit # Some(0)) =>
          /\ pc \in {"solve_failed", "go_done", "finally", "returned", "exited"}
          /\ wcs = None /\ image_writes = <<>> /\ tile_calls = <<>>

\* the first image failed in the indexer and was skipped, the second was
\* indexed, the solver ran once and failed, and go() is over
C16_Witness ==
    /\ Len(fits_paths) = 2
    /\ index_ok = {1}
    /\ Len(events) = 7
    /\ events[3].op = "index" /\ events[3].num = 0
    /\ events[6].op = "index" /\ events[6].num = 1
    /\ events[7].op = "solve"
    /\ solver_exit = Some(1)
    /\ pc = "go_done"
====
